---- MODULE Spec2Model ----
(***************************************************************************)
(* Model of the magnetometry utilities of the tutorial:                    *)
(*   src/tutorial/utils/u02_parsing.py      (header/data parser,           *)
(*                                            classifier, normaliser)      *)
(*   src/tutorial_answers/utils/u03_oop.py  (clustering, outliers,         *)
(*                                            turnaround point)            *)
(* Every function is pure.  A behaviour is one call: an action draws the   *)
(* arguments from a bounded set, applies the function and records the      *)
(* arguments in arg and the outcome (a value or the exception raised) in   *)
(* ret.                                                                    *)
(*                                                                         *)
(* Numbers.  Samples are integers (exactly representable floats), so mean, *)
(* variance and z-score are exact rationals; they are kept as integer      *)
(* numerators and denominators and compared by cross-multiplication.  A    *)
(* missing value (NaN) is the empty tuple <<>>, a present value v is <<v>>.*)
(***************************************************************************)
EXTENDS Integers, Sequences, FiniteSets

VARIABLES pc, arg, ret

vars == <<pc, arg, ret>>

----------------------------------------------------------------------------
(* Values, series and small helpers *)

NaN == <<>>

Num(v) == <<v>>

isna(x) == x = NaN

\* All sequences over S of length 0..n.
SeqsUpTo(S, n) == UNION {[1..k -> S] : k \in 0..n}

\* k copies of e.
Rep(e, k) == [i \in 1..k |-> e]

----------------------------------------------------------------------------
(* u02_parsing.py: the text file *)

\* A line is a sequence of characters.  The alphabet: the word "[Data]"
\* (taken as one character), an ordinary character, and the two delimiters.
TAB == "TAB"

COMMA == "COMMA"

DataMarker == <<"[Data]">>

\* Lines before the marker line: none of them has first field "[Data]".
\* The blank line is one of them ("[Data],a" and "[Data]a" are fields that
\* merely start with the word).
PreLines ==
    { <<>>, <<"a">>, <<"a", TAB, "[Data]">>, <<"[Data]", COMMA, "a">>,
      <<"[Data]", "a">> }

\* Lines whose first tab-separated field is exactly "[Data]".
MarkerLines == { <<"[Data]">>, <<"[Data]", TAB, "a">> }

\* The line pattern of the data section (column-name row and data rows have
\* the same delimiters: the section is rectangular).
DataLines ==
    { <<"a">>, <<"a", TAB, "a">>, <<"a", COMMA, "a">>,
      <<"a", TAB, "a", COMMA, "a">>, <<"a", COMMA, "a", COMMA, "a">> }

MaxPre == 2

MaxData == 2

\* The fields of line[i..], cur being the field read so far.
RECURSIVE SplitFrom(_, _, _, _)
SplitFrom(line, sep, i, cur) ==
    IF i > Len(line) THEN <<cur>>
    ELSE IF line[i] = sep THEN <<cur>> \o SplitFrom(line, sep, i + 1, <<>>)
    ELSE SplitFrom(line, sep, i + 1, Append(cur, line[i]))

\* csv.reader: one row of fields per line; a blank line gives the empty row.
csv_row(line, sep) ==
    IF line = <<>> THEN <<>> ELSE SplitFrom(line, sep, 1, <<>>)

\* The loop of get_header from line i on, header being the rows appended so
\* far.  row[0] of an empty row raises IndexError (after the append).
RECURSIVE ReadHeader(_, _, _)
ReadHeader(file, i, header) ==
    IF i > Len(file) THEN [status |-> "ok", header |-> header]
    ELSE LET row == csv_row(file[i], TAB)
         IN  IF row = <<>> THEN [status |-> "IndexError"]
             ELSE IF row[1] = DataMarker
                  THEN [status |-> "ok", header |-> Append(header, row)]
                  ELSE ReadHeader(file, i + 1, Append(header, row))

get_header(file) == ReadHeader(file, 1, <<>>)

\* pd.read_csv(file, sep=sep, skiprows=skiprows): the first skiprows lines
\* are dropped, blank lines are skipped, the first line left names the
\* columns and the others are the data rows.
read_csv(file, sep, skiprows) ==
    LET rest == SelectSeq(SubSeq(file, skiprows + 1, Len(file)),
                          LAMBDA l : l # <<>>)
    IN  IF rest = <<>> THEN [status |-> "EmptyDataError"]
        ELSE [status  |-> "ok",
              columns |-> SplitFrom(rest[1], sep, 1, <<>>),
              rows    |-> [k \in 1..(Len(rest) - 1) |->
                              SplitFrom(rest[k + 1], sep, 1, <<>>)]]

\* df.shape[1]
ncols(df) == Len(df.columns)

\* get_data with the retry left out.
get_data_no_retry(file) ==
    LET h == get_header(file)
    IN  IF h.status # "ok" THEN [status |-> h.status, reads |-> <<>>]
        ELSE LET df == read_csv(file, TAB, Len(h.header))
             IN  IF df.status # "ok"
                 THEN [status |-> df.status, reads |-> <<TAB>>]
                 ELSE [status |-> "ok", reads |-> <<TAB>>, df |-> df]

\* get_data.  reads lists the delimiters of the read_csv calls made.
get_data(file) ==
    LET h == get_header(file)
    IN  IF h.status # "ok" THEN [status |-> h.status, reads |-> <<>>]
        ELSE LET skip_rows == Len(h.header)
                 df == read_csv(file, TAB, skip_rows)
             IN  IF df.status # "ok"
                 THEN [status |-> df.status, reads |-> <<TAB>>]
                 ELSE IF ncols(df) = 1
                      THEN LET df2 == read_csv(file, COMMA, skip_rows)
                           IN  IF df2.status # "ok"
                               THEN [status |-> df2.status,
                                     reads |-> <<TAB, COMMA>>]
                               ELSE [status |-> "ok",
                                     reads |-> <<TAB, COMMA>>, df |-> df2]
                      ELSE [status |-> "ok", reads |-> <<TAB>>, df |-> df]

\* The files drawn: lines before the marker, at most one marker line, then
\* the data section.
FileOf(pre, marker, d, k) == pre \o marker \o Rep(d, k)

----------------------------------------------------------------------------
(* u02_parsing.py: the parsed table *)

\* A table maps each column it holds to a sequence of values, one per row.
\* df[c] of a column the table lacks raises KeyError.
TimeStamp == "Time Stamp (sec)"

Temperature == "Temperature (K)"

MagneticField == "Magnetic Field (Oe)"

Moment == "Moment (emu)"

MomentErr == "M. Std. Err. (emu)"

DCMoment == "DC Moment Free Ctr (emu)"

DCMomentErr == "DC Moment Err Free Ctr (emu)"

ColumnNames ==
    {TimeStamp, Temperature, MagneticField, Moment, MomentErr, DCMoment,
     DCMomentErr}

MaxRows == 2

\* The values the drawn columns take.
TimeValues == {NaN, Num(3), Num(5), Num(8)}

MomentValues == {NaN, Num(1)}

FillValues == {NaN, Num(7)}

has(df, c) == c \in DOMAIN df

\* s.notna().all(): true of the empty column.
notna_all(s) == \A i \in 1..Len(s) : ~isna(s[i])

\* measurement_type with the two tests in the other order.
measurement_type_dc_first(df) ==
    IF ~has(df, DCMoment) THEN [status |-> "KeyError"]
    ELSE IF notna_all(df[DCMoment]) THEN [status |-> "ok", value |-> "DC"]
    ELSE IF ~has(df, Moment) THEN [status |-> "KeyError"]
    ELSE IF notna_all(df[Moment]) THEN [status |-> "ok", value |-> "VSM"]
    ELSE [status |-> "ok", value |-> ""]

measurement_type(df) ==
    IF ~has(df, Moment) THEN [status |-> "KeyError"]
    ELSE IF notna_all(df[Moment]) THEN [status |-> "ok", value |-> "VSM"]
    ELSE IF ~has(df, DCMoment) THEN [status |-> "KeyError"]
    ELSE IF notna_all(df[DCMoment]) THEN [status |-> "ok", value |-> "DC"]
    ELSE [status |-> "ok", value |-> ""]

\* s.min(): the least value present, NaN when there is none.
min(s) ==
    LET present == {i \in 1..Len(s) : ~isna(s[i])}
    IN  IF present = {} THEN NaN
        ELSE s[CHOOSE i \in present : \A j \in present : s[i][1] <= s[j][1]]

\* a - b of two values.
sub(a, b) == IF isna(a) \/ isna(b) THEN NaN ELSE Num(a[1] - b[1])

\* The time relative to the first timestamp, s.iloc[0], instead of s.min().
relative_time_first(s) == [i \in 1..Len(s) |-> sub(s[i], s[1])]

\* df["Time Stamp (sec)"] - df["Time Stamp (sec)"].min()
relative_time(s) == [i \in 1..Len(s) |-> sub(s[i], min(s))]


\* simplify_magnetic_df: the columns are read in the order of the code, and
\* the first one that is missing raises KeyError.
simplify_magnetic_df(df) ==
    IF ~has(df, TimeStamp) \/ ~has(df, Temperature) \/ ~has(df, MagneticField)
    THEN [status |-> "KeyError"]
    ELSE LET base == [time  |-> relative_time(df[TimeStamp]),
                      temp  |-> df[Temperature],
                      field |-> df[MagneticField]]
             meas_type == measurement_type(df)
         IN  IF meas_type.status # "ok" THEN [status |-> "KeyError"]
             ELSE IF meas_type.value = "VSM"
                  THEN IF ~has(df, MomentErr) THEN [status |-> "KeyError"]
                       ELSE [status |-> "ok",
                             new_df |-> [time       |-> base.time,
                                         temp       |-> base.temp,
                                         field      |-> base.field,
                                         moment     |-> df[Moment],
                                         moment_err |-> df[MomentErr]]]
             ELSE IF meas_type.value = "DC"
                  THEN IF ~has(df, DCMomentErr) THEN [status |-> "KeyError"]
                       ELSE [status |-> "ok",
                             new_df |-> [time       |-> base.time,
                                         temp       |-> base.temp,
                                         field      |-> base.field,
                                         moment     |-> df[DCMoment],
                                         moment_err |-> df[DCMomentErr]]]
             ELSE [status |-> "ok", new_df |-> base]

\* The tables drawn: n rows; the timestamp and the two moment columns vary
\* freely, the other columns all hold fill; at most one column is absent.
TableOf(ts, mom, dc, fill, absent) ==
    [c \in ColumnNames \ absent |->
        IF c = TimeStamp THEN ts
        ELSE IF c = Moment THEN mom
        ELSE IF c = DCMoment THEN dc
        ELSE Rep(fill, Len(ts))]

----------------------------------------------------------------------------
(* u03_oop.py: series *)

\* A series is an index (one label per element) and the values.
Series(index, values) == [index |-> index, values |-> values]

\* The default index of a table read from a file, or a slice of it.
RangeIndex(start, n) == [i \in 1..n |-> start + i - 1]

\* The sum of the first k entries of a sequence of integers.
RECURSIVE SumSeq(_, _)
SumSeq(f, k) == IF k = 0 THEN 0 ELSE f[k] + SumSeq(f, k - 1)

\* The positions of the values present.
present(s) == {i \in 1..Len(s.values) : ~isna(s.values[i])}

\* s.count(): mean and std skip the missing values.
count(s) == Cardinality(present(s))

\* s.sum()
total(s) ==
    SumSeq([i \in 1..Len(s.values) |->
               IF isna(s.values[i]) THEN 0 ELSE s.values[i][1]],
           Len(s.values))

\* The sum of the squared deviations from the mean, scaled to an integer:
\* count^2 * sum((x - mean)^2) = sum((count * x - total)^2).
sum_sq_dev(s) ==
    LET n == count(s)
        t == total(s)
    IN  SumSeq([i \in 1..Len(s.values) |->
                   IF isna(s.values[i]) THEN 0
                   ELSE (n * s.values[i][1] - t) * (n * s.values[i][1] - t)],
               Len(s.values))

\* (x - x.mean()) / x.std(), std being the sample standard deviation
\* (ddof = 1): z^2 = dev^2 * (count - 1) / sum_sq_dev.  A z-score is kept
\* as its sign and the fraction num/den that is its square.  It is NaN for
\* a missing value, for fewer than two values (std is NaN) and for equal
\* values (0/0).
z_scores(s) ==
    LET n == count(s)
        t == total(s)
        ssd == sum_sq_dev(s)
    IN  Series(s.index,
               [i \in 1..Len(s.values) |->
                   IF isna(s.values[i]) \/ n < 2 \/ ssd = 0 THEN NaN
                   ELSE LET d == n * s.values[i][1] - t
                        IN  Num([neg |-> d < 0,
                                 num |-> d * d * (n - 1),
                                 den |-> ssd])])

\* z > threshold without the abs(): the sign is kept.
exceeds_signed(z, threshold) ==
    /\ ~isna(z)
    /\ ~z[1].neg
    /\ z[1].num > threshold * threshold * z[1].den

\* abs(z) > threshold; a comparison with NaN is false.
exceeds(z, threshold) ==
    /\ ~isna(z)
    /\ z[1].num > threshold * threshold * z[1].den

\* index[i..] where the mask holds, in the order of the series.
RECURSIVE IndexWhere(_, _, _)
IndexWhere(index, mask, i) ==
    IF i > Len(index) THEN <<>>
    ELSE (IF mask[i] THEN <<index[i]>> ELSE <<>>)
         \o IndexWhere(index, mask, i + 1)

DefaultThreshold == 3

find_outlier_indices(x, threshold) ==
    LET z == z_scores(x)
        outliers == [i \in 1..Len(x.values) |-> exceeds(z.values[i], threshold)]
    IN  IndexWhere(x.index, outliers, 1)

\* s.diff(): the first element has no predecessor.
diff(s) ==
    Series(s.index,
           [i \in 1..Len(s.values) |->
               IF i = 1 THEN NaN ELSE sub(s.values[i], s.values[i - 1])])

Trim == 20

\* s.iloc[k:-k]: positions k .. len-k-1 (from 0), labels kept; empty when
\* the series has at most 2k elements.
iloc(s, k) ==
    Series(SubSeq(s.index, k + 1, Len(s.index) - k),
           SubSeq(s.values, k + 1, Len(s.values) - k))

\* abs(s)
abs(s) ==
    Series(s.index,
           [i \in 1..Len(s.values) |->
               IF isna(s.values[i]) THEN NaN
               ELSE Num(IF s.values[i][1] < 0 THEN -s.values[i][1]
                        ELSE s.values[i][1])])

\* s.idxmin(): the label of the first least value, missing values skipped.
\* An empty series raises ValueError; a series of missing values only
\* raises ValueError or returns NaN, depending on the version of pandas.
idxmin(s) ==
    LET ps == present(s)
    IN  IF Len(s.values) = 0 THEN {[status |-> "ValueError"]}
        ELSE IF ps = {}
             THEN {[status |-> "ValueError"], [status |-> "ok", value |-> NaN]}
             ELSE LET least == CHOOSE i \in ps :
                                  \A j \in ps :
                                     \/ s.values[i][1] < s.values[j][1]
                                     \/ (s.values[i][1] = s.values[j][1] /\ i <= j)
                  IN  {[status |-> "ok", value |-> Num(s.index[least])]}

\* The series differenced before it is trimmed.
trimmed_diff_swapped(temp) == iloc(diff(temp), Trim)

\* df["Temperature (K)"].iloc[20:-20].diff()
trimmed_diff(temp) == diff(iloc(temp, Trim))

\* find_temp_turnaround_point, temp being df["Temperature (K)"]: the set of
\* its possible outcomes.
find_temp_turnaround_point(temp) ==
    LET outlier_indices == find_outlier_indices(diff(temp), DefaultThreshold)
    IN  IF Len(outlier_indices) = 0
        THEN idxmin(abs(trimmed_diff(temp)))
        ELSE {[status |-> "ok", value |-> Num(outlier_indices[1])]}

\* The series drawn for find_outlier_indices.
MaxSeries == 4

OutlierValues == {NaN, Num(1), Num(3), Num(5), Num(100)}

Thresholds == {1, 2, DefaultThreshold}

IndexStarts == {0, 7}

\* The temperature columns drawn: from T0, c1 steps of a, then one step of
\* j (no step when j = 0), then c2 steps of b.
T0 == 100

RunLens == {0, 1, 10, 20, 21, 30}

UpSteps == {1, 2}

Jumps == {0, -15, -2, 9}

SecondSteps == {-2, -1, 1, 2, 5}

TempOf(a, c1, j, b, c2) ==
    LET steps == Rep(a, c1) \o (IF j = 0 THEN <<>> ELSE <<j>>) \o Rep(b, c2)
        n == Len(steps) + 1
    IN  Series(RangeIndex(0, n),
               [i \in 1..n |-> Num(T0 + SumSeq(steps, i - 1))])

----------------------------------------------------------------------------
(* u03_oop.py: clustering *)

\* eps is a fraction num/den; the default is 0.001.
DefaultEps == [num |-> 1, den |-> 1000]

DefaultMinSamples == 10

\* StandardScaler followed by the neighbourhood test of DBSCAN: samples i
\* and j are neighbours when |x[i] - x[j]| / sigma <= eps, sigma being the
\* population standard deviation (sigma^2 = ssd / n^3, ssd the scaled sum of
\* squared deviations), replaced by 1 when it is 0.  Squared and
\* cross-multiplied: (x[i] - x[j])^2 * n^3 * den^2 <= num^2 * ssd.
near(x, i, j, eps) ==
    LET n == Len(x.values)
        ssd == sum_sq_dev(x)
        d == x.values[i][1] - x.values[j][1]
    IN  IF ssd = 0
        THEN d * d <= (eps.num * eps.num) \div (eps.den * eps.den)
        ELSE d * d * n * n * n <= (eps.num * eps.num * ssd) \div (eps.den * eps.den)

\* The neighbourhood of sample i, itself included.
neighborhood(x, i, eps) == {j \in 1..Len(x.values) : near(x, i, j, eps)}

\* A core sample has at least min_samples samples in its neighbourhood.
is_core(x, i, eps, min_samples) ==
    Cardinality(neighborhood(x, i, eps)) >= min_samples

\* The samples of free reached from members by way of core samples.
RECURSIVE Grow(_, _, _, _)
Grow(members, free, nb, core) ==
    LET more == members \cup
                {v \in free : \E u \in members : core[u] /\ v \in nb[u]}
    IN  IF more = members THEN members ELSE Grow(more, free, nb, core)

\* The sweep of DBSCAN over the samples in order: an unlabelled core sample
\* starts the next cluster, which takes every unlabelled sample reachable
\* from it.
RECURSIVE Sweep(_, _, _, _, _)
Sweep(i, labels, label_num, nb, core) ==
    IF i > Len(labels) THEN labels
    ELSE IF labels[i] # -1 \/ ~core[i]
         THEN Sweep(i + 1, labels, label_num, nb, core)
         ELSE LET free == {v \in 1..Len(labels) : labels[v] = -1}
                  cluster == Grow({i}, free, nb, core)
              IN  Sweep(i + 1,
                        [v \in 1..Len(labels) |->
                            IF v \in cluster THEN label_num ELSE labels[v]],
                        label_num + 1, nb, core)

\* label_clusters on an empty series returning an empty array of labels.
label_clusters_accepting_empty(vals, eps, min_samples) ==
    LET n == Len(vals.values)
        nb == [i \in 1..n |-> neighborhood(vals, i, eps)]
        core == [i \in 1..n |-> is_core(vals, i, eps, min_samples)]
    IN  [status |-> "ok",
         labels |-> Sweep(1, [i \in 1..n |-> -1], 0, nb, core)]

\* label_clusters: StandardScaler.fit_transform raises ValueError for an
\* array without samples.
label_clusters(vals, eps, min_samples) ==
    LET n == Len(vals.values)
        nb == [i \in 1..n |-> neighborhood(vals, i, eps)]
        core == [i \in 1..n |-> is_core(vals, i, eps, min_samples)]
    IN  IF n = 0 THEN [status |-> "ValueError"]
        ELSE [status |-> "ok",
              labels |-> Sweep(1, [i \in 1..n |-> -1], 0, nb, core)]

\* np.unique: the distinct elements in ascending order.
RECURSIVE SortedSeq(_)
SortedSeq(S) ==
    IF S = {} THEN <<>>
    ELSE LET least == CHOOSE m \in S : \A e \in S : m <= e
         IN  <<least>> \o SortedSeq(S \ {least})

\* round(t / k, 1) in tenths (k > 0): the nearest multiple of 0.1, a tie
\* going to the even one.
round1(t, k) ==
    LET q == (10 * t) \div k
        r == 10 * t - q * k
    IN  IF 2 * r < k THEN q
        ELSE IF 2 * r > k THEN q + 1
        ELSE IF q % 2 = 0 THEN q ELSE q + 1

\* round(np.mean(x[cluster_labels == i]), 1), in tenths.
cluster_mean(x, cluster_labels, i) ==
    LET picked == [p \in 1..Len(x.values) |->
                      IF cluster_labels[p] = i THEN x.values[p][1] ELSE 0]
        k == Cardinality({p \in 1..Len(x.values) : cluster_labels[p] = i})
    IN  round1(SumSeq(picked, Len(picked)), k)

\* unique_values with the noise label left out.
unique_values_without_noise(x, eps, min_samples) ==
    LET c == label_clusters(x, eps, min_samples)
    IN  IF c.status # "ok" THEN [status |-> c.status]
        ELSE LET labels == SortedSeq({c.labels[p] : p \in 1..Len(c.labels)} \ {-1})
             IN  [status |-> "ok",
                  values |-> [k \in 1..Len(labels) |->
                                 cluster_mean(x, c.labels, labels[k])]]

\* unique_values: the entries are in tenths.
unique_values(x, eps, min_samples) ==
    LET c == label_clusters(x, eps, min_samples)
    IN  IF c.status # "ok" THEN [status |-> c.status]
        ELSE LET labels == SortedSeq({c.labels[p] : p \in 1..Len(c.labels)})
             IN  [status |-> "ok",
                  values |-> [k \in 1..Len(labels) |->
                                 cluster_mean(x, c.labels, labels[k])]]

\* The series and parameters drawn for the clustering.
ClusterValues == {Num(0), Num(1), Num(2), Num(7)}

EpsChoices == {DefaultEps, [num |-> 1, den |-> 2]}

MinSamplesChoices == {2, 3, DefaultMinSamples}

----------------------------------------------------------------------------
(* The calls *)

Init ==
    /\ pc = "idle"
    /\ arg = <<>>
    /\ ret = <<>>

CallGetHeader ==
    /\ pc = "idle"
    /\ \E pre \in SeqsUpTo(PreLines, MaxPre),
          marker \in {<<>>} \cup {<<m>> : m \in MarkerLines},
          d \in DataLines, k \in 0..MaxData :
          LET file == FileOf(pre, marker, d, k)
          IN  /\ arg' = [file |-> file]
              /\ ret' = get_header(file)
    /\ pc' = "get_header"

CallGetData ==
    /\ pc = "idle"
    /\ \E pre \in SeqsUpTo(PreLines, MaxPre),
          marker \in {<<>>} \cup {<<m>> : m \in MarkerLines},
          d \in DataLines, k \in 0..MaxData :
          LET file == FileOf(pre, marker, d, k)
          IN  /\ arg' = [file |-> file]
              /\ ret' = get_data(file)
    /\ pc' = "get_data"

CallMeasurementType ==
    /\ pc = "idle"
    /\ \E n \in 0..MaxRows :
          \E ts \in [1..n -> TimeValues], mom \in [1..n -> MomentValues],
             dc \in [1..n -> MomentValues], fill \in FillValues,
             absent \in {{}} \cup {{c} : c \in ColumnNames} :
             LET df == TableOf(ts, mom, dc, fill, absent)
             IN  /\ arg' = [df |-> df]
                 /\ ret' = measurement_type(df)
    /\ pc' = "measurement_type"

CallSimplifyMagneticDf ==
    /\ pc = "idle"
    /\ \E n \in 0..MaxRows :
          \E ts \in [1..n -> TimeValues], mom \in [1..n -> MomentValues],
             dc \in [1..n -> MomentValues], fill \in FillValues,
             absent \in {{}} \cup {{c} : c \in ColumnNames} :
             LET df == TableOf(ts, mom, dc, fill, absent)
             IN  /\ arg' = [df |-> df]
                 /\ ret' = simplify_magnetic_df(df)
    /\ pc' = "simplify_magnetic_df"

CallFindOutlierIndices ==
    /\ pc = "idle"
    /\ \E n \in 0..MaxSeries :
          \E values \in [1..n -> OutlierValues], start \in IndexStarts,
             threshold \in Thresholds :
             LET x == Series(RangeIndex(start, n), values)
             IN  /\ arg' = [x |-> x, threshold |-> threshold]
                 /\ ret' = find_outlier_indices(x, threshold)
    /\ pc' = "find_outlier_indices"

CallFindTempTurnaroundPoint ==
    /\ pc = "idle"
    /\ \E a \in UpSteps, c1 \in RunLens, j \in Jumps, b \in SecondSteps,
          c2 \in RunLens :
          LET temp == TempOf(a, c1, j, b, c2)
          IN  /\ arg' = [temp |-> temp]
              /\ ret' \in find_temp_turnaround_point(temp)
    /\ pc' = "find_temp_turnaround_point"

CallLabelClusters ==
    /\ pc = "idle"
    /\ \E n \in 0..MaxSeries :
          \E values \in [1..n -> ClusterValues], eps \in EpsChoices,
             min_samples \in MinSamplesChoices :
             LET vals == Series(RangeIndex(0, n), values)
             IN  /\ arg' = [x |-> vals, eps |-> eps, min_samples |-> min_samples]
                 /\ ret' = label_clusters(vals, eps, min_samples)
    /\ pc' = "label_clusters"

CallUniqueValues ==
    /\ pc = "idle"
    /\ \E n \in 0..MaxSeries :
          \E values \in [1..n -> ClusterValues], eps \in EpsChoices,
             min_samples \in MinSamplesChoices :
             LET x == Series(RangeIndex(0, n), values)
             IN  /\ arg' = [x |-> x, eps |-> eps, min_samples |-> min_samples]
                 /\ ret' = unique_values(x, eps, min_samples)
    /\ pc' = "unique_values"

Next ==
    \/ CallLabelClusters
    \/ CallUniqueValues
    \/ CallGetHeader
    \/ CallGetData
    \/ CallMeasurementType
    \/ CallSimplifyMagneticDf
    \/ CallFindOutlierIndices
    \/ CallFindTempTurnaroundPoint

Spec == Init /\ [][Next]_vars

----------------------------------------------------------------------------
(* Claims about the parser *)

Count(line, ch) == Cardinality({i \in 1..Len(line) : line[i] = ch})

\* The line's first tab-separated field is exactly "[Data]".
IsMarkerLine(line) ==
    /\ Len(line) >= 1
    /\ line[1] = "[Data]"
    /\ (Len(line) = 1 \/ line[2] = TAB)

\* The header of file is its first N lines: line N is the only marker line
\* among them.
HeaderIs(file, N) ==
    /\ N \in 1..Len(file)
    /\ IsMarkerLine(file[N])
    /\ \A i \in 1..(N - 1) : ~IsMarkerLine(file[i])

\* The fields of a line, read off the positions of the delimiter.
FieldsOf(line, sep) ==
    LET cuts == {i \in 1..Len(line) : line[i] = sep}
        starts == {1} \cup {i + 1 : i \in cuts}
        EndOf(s) == IF \E c \in cuts : c >= s
                    THEN (CHOOSE c \in cuts : c >= s /\ \A e \in cuts : e >= s => c <= e) - 1
                    ELSE Len(line)
        Ordered == [k \in 1..Cardinality(starts) |->
                       CHOOSE s \in starts : Cardinality({t \in starts : t < s}) = k - 1]
    IN  [k \in 1..Cardinality(starts) |-> SubSeq(line, Ordered[k], EndOf(Ordered[k]))]

C7_HeaderRowsAndSkip ==
    pc \in {"get_header", "get_data"} =>
    \A N \in 1..Len(arg.file) :
        HeaderIs(arg.file, N) =>
            /\ pc = "get_header" =>
                  /\ ret.status = "ok"
                  /\ Len(ret.header) = N
                  /\ \A i \in 1..N : ret.header[i] = FieldsOf(arg.file[i], TAB)
            /\ (pc = "get_data" /\ N < Len(arg.file)) =>
                  /\ ret.status = "ok"
                  /\ \E sep \in {TAB, COMMA} :
                        /\ ret.df.columns = FieldsOf(arg.file[N + 1], sep)
                        /\ Len(ret.df.rows) = Len(arg.file) - N - 1
                        /\ \A k \in 1..Len(ret.df.rows) :
                              ret.df.rows[k] = FieldsOf(arg.file[N + 1 + k], sep)

----------------------------------------------------------------------------
(* Claims about the classifier and the normaliser *)

Missing(df, c) == {i \in 1..Len(df[c]) : df[c][i] = NaN}

\* C8 (as amended): on a table that holds the columns it reads,
\* measurement_type is a three-way decision: VSM when "Moment (emu)" has no
\* missing value, whatever the other columns hold (the DC column may even be
\* absent); otherwise DC when "DC Moment Free Ctr (emu)" has no missing
\* value; otherwise the empty string.  It raises KeyError exactly when
\* "Moment (emu)" is absent, or has a missing value while the DC column is
\* absent.
C8_ThreeWayDecision ==
    pc = "measurement_type" =>
        LET df == arg.df
            vsm == has(df, Moment) /\ Missing(df, Moment) = {}
            dcRead == has(df, Moment) /\ Missing(df, Moment) # {}
        IN  /\ vsm => ret = [status |-> "ok", value |-> "VSM"]
            /\ (dcRead /\ has(df, DCMoment) /\ Missing(df, DCMoment) = {})
                  => ret = [status |-> "ok", value |-> "DC"]
            /\ (dcRead /\ has(df, DCMoment) /\ Missing(df, DCMoment) # {})
                  => ret = [status |-> "ok", value |-> ""]
            /\ ret.status = "KeyError"
                  <=> (~has(df, Moment) \/ (dcRead /\ ~has(df, DCMoment)))

\* C8 witness: VSM is returned although the DC column has no missing value
\* either, on a table with at least one row.
C8_Witness ==
    /\ pc = "measurement_type"
    /\ has(arg.df, Moment) /\ has(arg.df, DCMoment)
    /\ Len(arg.df[Moment]) >= 1
    /\ Missing(arg.df, DCMoment) = {}
    /\ ret = [status |-> "ok", value |-> "VSM"]

\* C8 as stated: measurement_type is total and never raises.
C8_Original ==
    pc = "measurement_type" =>
        /\ ret.status = "ok"
        /\ ret.value \in {"VSM", "DC", ""}

RowsOf(df) == 1..Len(df[TimeStamp])

Stamped(df) == {i \in RowsOf(df) : df[TimeStamp][i] # NaN}

\* C9 (as amended): for every table with at least one timestamp present, the
\* "time" column is relative to the least timestamp: a row without timestamp
\* has no time, every other time is non-negative, some time is exactly 0,
\* and the first row's time is 0 exactly when the first row carries the
\* least timestamp.
C9_TimeRelativeToMinimum ==
    (pc = "simplify_magnetic_df" /\ ret.status = "ok" /\ Stamped(arg.df) # {}) =>
        LET ts == arg.df[TimeStamp]
            time == ret.new_df.time
        IN  /\ Len(time) = Len(ts)
            /\ \A i \in RowsOf(arg.df) : (time[i] = NaN) <=> (ts[i] = NaN)
            /\ \A i \in Stamped(arg.df) : time[i][1] >= 0
            /\ \E i \in Stamped(arg.df) : time[i] = Num(0)
            /\ (time[1] = Num(0)) <=>
                  (1 \in Stamped(arg.df)
                   /\ \A j \in Stamped(arg.df) : ts[1][1] <= ts[j][1])

\* C9 witness: every row has a timestamp and the first row's time is
\* positive.
C9_Witness ==
    /\ pc = "simplify_magnetic_df"
    /\ ret.status = "ok"
    /\ Stamped(arg.df) = RowsOf(arg.df)
    /\ Len(ret.new_df.time) >= 2
    /\ ret.new_df.time[1][1] > 0

\* C9 as stated, on the tables in which every row has a timestamp: every
\* time is non-negative, the least time is 0 and the first row's time is 0.
C9_Original ==
    (/\ pc = "simplify_magnetic_df"
     /\ ret.status = "ok"
     /\ RowsOf(arg.df) # {}
     /\ Stamped(arg.df) = RowsOf(arg.df)) =>
        LET time == ret.new_df.time
        IN  /\ \A i \in 1..Len(time) : time[i][1] >= 0
            /\ \E i \in 1..Len(time) : time[i] = Num(0)
            /\ time[1] = Num(0)

----------------------------------------------------------------------------
(* Claims about the clustering *)

\* The sum of f over the finite set S.
RECURSIVE SumOver(_, _)
SumOver(S, f) ==
    IF S = {} THEN 0
    ELSE LET e == CHOOSE m \in S : TRUE IN f[e] + SumOver(S \ {e}, f)

Abs(v) == IF v < 0 THEN -v ELSE v

\* The labels label_clusters gives the series of the call.
LabelsOfCall == label_clusters(arg.x, arg.eps, arg.min_samples).labels

----------------------------------------------------------------------------
(* Claims about the outlier detector *)

----------------------------------------------------------------------------
(* Claims about the turnaround point *)

TempValues == [i \in 1..Len(arg.temp.values) |-> arg.temp.values[i][1]]

NoOutlier == find_outlier_indices(diff(arg.temp), DefaultThreshold) = <<>>

\* The column rises strictly up to position p and falls strictly after it.
UpThenDown(T, p) ==
    /\ p \in 2..(Len(T) - 1)
    /\ \A i \in 1..(p - 1) : T[i] < T[i + 1]
    /\ \A i \in p..(Len(T) - 1) : T[i] > T[i + 1]

\* The column rises strictly, except for the one drop at position r.
UpResetUp(T, r) ==
    /\ r \in 3..(Len(T) - 1)
    /\ T[r] < T[r - 1]
    /\ \A i \in 2..Len(T) : i # r => T[i - 1] < T[i]

\* C1 as stated, for the columns long enough to be trimmed: when the column
\* rises strictly and then falls strictly and no difference is an outlier,
\* the index returned lies in [20, len-20) and within one sample of the
\* position where the ramp changes direction.
C1_NearTheTurn ==
    pc = "find_temp_turnaround_point" =>
        \A p \in 1..Len(arg.temp.values) :
            (/\ UpThenDown(TempValues, p)
             /\ NoOutlier
             /\ Len(arg.temp.values) > 2 * Trim + 1) =>
                /\ ret.status = "ok"
                /\ ret.value # NaN
                /\ ret.value[1] \in Trim..(Len(arg.temp.values) - Trim - 1)
                /\ Abs(ret.value[1] - arg.temp.index[p]) <= 1

\* C2 as stated, for the columns long enough to be trimmed: when the column
\* rises, is reset once to a lower value and rises again, the index returned
\* is the position of the reset, the first index find_outlier_indices
\* returns for the differences.
C2_ResetIsReturned ==
    pc = "find_temp_turnaround_point" =>
        \A r \in 1..Len(arg.temp.values) :
            (UpResetUp(TempValues, r) /\ Len(arg.temp.values) > 2 * Trim + 1) =>
                /\ ret.status = "ok"
                /\ ret.value = Num(arg.temp.index[r])
                /\ ~NoOutlier
                /\ ret.value =
                      Num(find_outlier_indices(diff(arg.temp), DefaultThreshold)[1])

\* C10: when no temperature difference is an outlier, a table of at most 41
\* rows has no defined value in its trimmed difference series and the call
\* returns the index of no row (it raises, or returns NaN); for a longer
\* table the index returned lies in [21, len-20).
C10_TrimmedRange ==
    (pc = "find_temp_turnaround_point" /\ NoOutlier) =>
        LET n == Len(arg.temp.values)
            td == trimmed_diff(arg.temp)
        IN  IF n <= 2 * Trim + 1
            THEN /\ \A i \in 1..Len(td.values) : td.values[i] = NaN
                 /\ (ret.status = "ValueError"
                     \/ (ret.status = "ok" /\ ret.value = NaN))
            ELSE /\ ret.status = "ok"
                 /\ ret.value # NaN
                 /\ ret.value[1] \in (Trim + 1)..(n - Trim - 1)

\* C10 witness: a table of exactly 41 rows, whose trimmed series has one
\* element, for which NaN is returned.
C10_Witness ==
    /\ pc = "find_temp_turnaround_point"
    /\ NoOutlier
    /\ Len(arg.temp.values) = 2 * Trim + 1
    /\ ret = [status |-> "ok", value |-> NaN]

====
